---- MODULE Spec2Model ----
(***************************************************************************)
(* Model of the MPU-9250 driver (drivers/mpu9250/mpu9250.c).               *)
(*                                                                         *)
(* The state is the device descriptor's configuration snapshot (dev->conf),*)
(* the construction parameter dev->params.sample_rate, the chip's register *)
(* file as seen through the I2C bus, and a record of the last driver call  *)
(* (operation, argument, return value, and the ordered list of bus, delay  *)
(* and snapshot-store events the call performed).  Every public function   *)
(* of the driver is one action; the function bodies are operators over a   *)
(* "machine" record that is threaded through the statements in program     *)
(* order.                                                                  *)
(***************************************************************************)
EXTENDS Integers, Sequences, FiniteSets

VARIABLES params, conf, regs, phase, lastCall

vars == <<params, conf, regs, phase, lastCall>>

(***************************************************************************)
(* Bounds of the model.                                                    *)
(***************************************************************************)
\* At most this many consecutive i2c_acquire attempts of one driver call fail.
MaxBusFailures == 1
\* Requested sample rates of the rate specification range over 0..MaxRateInput.
MaxRateInput == 1001
\* Half rates handed to conf_lpf range over 0..MaxHalfRate.
MaxHalfRate == 500

(***************************************************************************)
(* Constants of mpu9250.c.                                                 *)
(***************************************************************************)
REG_RESET == 0
MAX_VALUE == 32767

(***************************************************************************)
(* Constants of mpu9250.h / mpu9250-regs.h (datasheet values).             *)
(***************************************************************************)
MPU9250_SENSOR_PWR_OFF == 0
MPU9250_SENSOR_PWR_ON == 1

MPU9250_GYRO_FSR_250DPS == 0
MPU9250_GYRO_FSR_500DPS == 1
MPU9250_GYRO_FSR_1000DPS == 2
MPU9250_GYRO_FSR_2000DPS == 3

MPU9250_ACCEL_FSR_2G == 0
MPU9250_ACCEL_FSR_4G == 1
MPU9250_ACCEL_FSR_8G == 2
MPU9250_ACCEL_FSR_16G == 3

MPU9250_FILTER_184HZ == 1
MPU9250_FILTER_92HZ == 2
MPU9250_FILTER_41HZ == 3
MPU9250_FILTER_20HZ == 4
MPU9250_FILTER_10HZ == 5
MPU9250_FILTER_5HZ == 6

MPU9250_MIN_SAMPLE_RATE == 4
MPU9250_MAX_SAMPLE_RATE == 1000
MPU9250_MIN_COMP_SMPL_RATE == 1
MPU9250_MAX_COMP_SMPL_RATE == 100

MPU9250_PWR_WAKEUP == 0
MPU9250_PWR_PLL == 1
MPU9250_PWR_CYCLE == 32
MPU9250_PWR_RESET == 128
BIT_PWR_MGMT1_SLEEP == 64
MPU9250_PWR_GYRO == 7
MPU9250_PWR_ACCEL == 56

BIT_I2C_MST_EN == 32
BIT_I2C_BYPASS_EN == 2
BIT_WAIT_FOR_ES == 64
BIT_SLAVE_RW == 128
BIT_SLAVE_EN == 128
BIT_SLV0_DELAY_EN == 1
BIT_SLV1_DELAY_EN == 2

MPU9250_COMP_POWER_DOWN == 0
MPU9250_COMP_SINGLE_MEASURE == 1
MPU9250_COMP_FUSE_ROM == 15
MPU9250_COMP_WHOAMI_ANSWER == 72
COMPASS_CNTL_REG == 10
COMPASS_DATA_START_REG == 3

MPU9250_ACCEL_CFG_WOM == 9
MPU9250_ACCEL_INTEL_CFG == 192
MPU9250_INT_WOM == 64
MPU9250_INT_EN == 1
MPU9250_INT_EN_CFG == 16
MPU9250_INT_STATUS_WOM == 64
MPU9250_INT_STATUS_RAW == 1

\* dev->params.comp_addr, the compass's bus address.
DEV_COMP_ADDR == 12

(***************************************************************************)
(* Eight-bit register arithmetic.                                          *)
(***************************************************************************)
\* bit k of n, where w = 2^k
Bit(n, w) == (n \div w) % 2

\* a & b on uint8_t
And8(a, b) ==
      Bit(a, 1) * Bit(b, 1)
    + Bit(a, 2) * Bit(b, 2) * 2
    + Bit(a, 4) * Bit(b, 4) * 4
    + Bit(a, 8) * Bit(b, 8) * 8
    + Bit(a, 16) * Bit(b, 16) * 16
    + Bit(a, 32) * Bit(b, 32) * 32
    + Bit(a, 64) * Bit(b, 64) * 64
    + Bit(a, 128) * Bit(b, 128) * 128

\* a | b on uint8_t
Or8(a, b) == (a % 256) + (b % 256) - And8(a, b)

\* ~a on uint8_t
Not8(a) == 255 - (a % 256)

\* truncation of an int to uint8_t
U8(n) == n % 256

(***************************************************************************)
(* The registers of the chip the driver touches, by name.  The compass's   *)
(* control register lives on the secondary device and survives a reset of  *)
(* the host chip.                                                          *)
(***************************************************************************)
HostRegs == {"PWR_MGMT_1", "PWR_MGMT_2", "USER_CTRL", "INT_PIN_CFG", "INT_ENABLE",
             "GYRO_CFG", "ACCEL_CFG", "ACCEL_CFG2", "CONFIG", "RATE_DIV",
             "I2C_MST", "SLAVE0_ADDR", "SLAVE0_REG", "SLAVE0_CTRL",
             "SLAVE1_ADDR", "SLAVE1_REG", "SLAVE1_CTRL", "SLAVE1_DATA_OUT",
             "SLAVE4_CTRL", "I2C_DELAY_CTRL", "MOT_DETECT_CTRL", "WOM_THR",
             "LP_ACCEL_ODR"}

CompassRegs == {"COMPASS_CNTL"}

AllRegs == HostRegs \cup CompassRegs

(***************************************************************************)
(* dev->conf = DEFAULT_STATUS                                              *)
(***************************************************************************)
DEFAULT_STATUS ==
    [accel_pwr |-> MPU9250_SENSOR_PWR_ON,
     gyro_pwr |-> MPU9250_SENSOR_PWR_ON,
     compass_pwr |-> MPU9250_SENSOR_PWR_ON,
     gyro_fsr |-> MPU9250_GYRO_FSR_250DPS,
     accel_fsr |-> MPU9250_ACCEL_FSR_16G,
     sample_rate |-> 0,
     compass_sample_rate |-> 0,
     compass_x_adj |-> 0,
     compass_y_adj |-> 0,
     compass_z_adj |-> 0]

(***************************************************************************)
(* The machine a function body runs on: the snapshot, the registers, the   *)
(* event log of the call, the number of acquire attempts made so far, the  *)
(* set of attempt numbers that fail, and the bytes the secondary device    *)
(* answers with.                                                           *)
(***************************************************************************)
Start(fails, ext) ==
    [params |-> params, conf |-> conf, regs |-> regs, log |-> <<>>, nacq |-> 0,
     fails |-> fails, ext |-> ext, ret |-> 0, out |-> <<>>]

Ev(kind, what, val) == <<kind, what, val>>

Emit(m, e) == [m EXCEPT !.log = Append(@, e)]

\* whether the next i2c_acquire of the call fails (returns non-zero)
AcquireFails(m) == (m.nacq + 1) \in m.fails

\* i2c_acquire(DEV_I2C)
i2c_acquire(m) ==
    [m EXCEPT !.nacq = @ + 1,
              !.log = Append(@, IF AcquireFails(m) THEN Ev("acquire_fail", "I2C", 0)
                                ELSE Ev("acquire", "I2C", 0))]

\* i2c_release(DEV_I2C)
i2c_release(m) == Emit(m, Ev("release", "I2C", 0))

\* The chip's reaction to a register write: setting the reset bit of
\* power-management-1 puts every host register back to its reset value.
ChipWrite(rs, reg, val) ==
    IF reg = "PWR_MGMT_1" /\ And8(val, MPU9250_PWR_RESET) # 0
    THEN [r \in AllRegs |-> IF r \in HostRegs THEN REG_RESET ELSE rs[r]]
    ELSE [rs EXCEPT ![reg] = val]

\* i2c_write_reg(DEV_I2C, addr, reg, val)
i2c_write_reg(m, reg, val) ==
    [m EXCEPT !.regs = ChipWrite(@, reg, U8(val)),
              !.log = Append(@, Ev("write", reg, U8(val)))]

\* i2c_read_reg / i2c_read_regs: the event; the value read is m.regs[reg]
i2c_read_reg(m, reg) == Emit(m, Ev("read", reg, 0))

\* xtimer_usleep(...)
xtimer_usleep(m, which) == Emit(m, Ev("delay", which, 0))

\* an assignment to a field of dev->conf
StoreConf(m, fld, val) ==
    [m EXCEPT !.conf = [@ EXCEPT ![fld] = val],
              !.log = Append(@, Ev("store", fld, val))]

Return(m, r) == [m EXCEPT !.ret = r]

\* i2c_read_reg(.., reg, &temp) followed by i2c_write_reg(.., reg, setting[temp]),
\* for setting a function of the byte read
ReadThenWrite(m, reg, setting) ==
    i2c_write_reg(i2c_read_reg(m, reg), reg, setting[m.regs[reg]])

(***************************************************************************)
(* Power State Machine.                                                    *)
(***************************************************************************)
\* faulty variant: power management 1 is configured as soon as one of the other
\* two subsystems is off
AccelTouchesPwr1Either(c) ==
    c.gyro_pwr = MPU9250_SENSOR_PWR_OFF \/ c.compass_pwr = MPU9250_SENSOR_PWR_OFF

\* mpu9250_set_accel_power: "Configure power management 1 register if needed"
AccelTouchesPwr1(c) ==
    c.gyro_pwr = MPU9250_SENSOR_PWR_OFF /\ c.compass_pwr = MPU9250_SENSOR_PWR_OFF

\* faulty variant: the early return is never taken
AccelPowerNeverUnchanged(c, pwr_conf) == FALSE

\* mpu9250_set_accel_power: requested state equals the stored one
AccelPowerUnchanged(c, pwr_conf) == c.accel_pwr = pwr_conf

\* mpu9250_set_accel_power: pwr_1_setting
AccelPwr1Setting(pwr_conf) ==
    IF pwr_conf = MPU9250_SENSOR_PWR_ON THEN MPU9250_PWR_WAKEUP ELSE BIT_PWR_MGMT1_SLEEP

\* mpu9250_set_accel_power: pwr_2_setting, from the value read
AccelPwr2Setting(pwr_conf, rd) ==
    IF pwr_conf = MPU9250_SENSOR_PWR_ON THEN And8(rd, Not8(MPU9250_PWR_ACCEL))
    ELSE Or8(rd, MPU9250_PWR_ACCEL)

\* faulty variant: the snapshot is updated before the registers are written
AccelPowerStoreFirst(m, pwr_conf) ==
    LET m2 == StoreConf(m, "accel_pwr", pwr_conf)
        m3 == i2c_release(i2c_write_reg(m2, "PWR_MGMT_2",
                              AccelPwr2Setting(pwr_conf, m.regs["PWR_MGMT_2"])))
    IN Return(xtimer_usleep(m3, "PWR_CHANGE_SLEEP"), 0)

\* mpu9250_set_accel_power from the read of power-management-2 on; m has read it
AccelPowerConfigure(m, pwr_conf) ==
    LET m2 == IF AccelTouchesPwr1(m.conf)
              THEN i2c_write_reg(m, "PWR_MGMT_1", AccelPwr1Setting(pwr_conf))
              ELSE m
        m3 == i2c_release(i2c_write_reg(m2, "PWR_MGMT_2",
                              AccelPwr2Setting(pwr_conf, m.regs["PWR_MGMT_2"])))
        m4 == StoreConf(m3, "accel_pwr", pwr_conf)
    IN Return(xtimer_usleep(m4, "PWR_CHANGE_SLEEP"), 0)

mpu9250_set_accel_power(m, pwr_conf) ==
    IF AccelPowerUnchanged(m.conf, pwr_conf) THEN Return(m, 0)
    ELSE IF AcquireFails(m) THEN Return(i2c_acquire(m), -1)
    ELSE AccelPowerConfigure(i2c_read_reg(i2c_acquire(m), "PWR_MGMT_2"), pwr_conf)

\* mpu9250_set_gyro_power: "All sensors turned off, put the MPU-9150 to sleep"
GyroOffSleeps(c) ==
    c.accel_pwr = MPU9250_SENSOR_PWR_OFF /\ c.compass_pwr = MPU9250_SENSOR_PWR_OFF

\* mpu9250_set_gyro_power: the value written to power-management-1
GyroPwr1Value(c, pwr_conf) ==
    IF pwr_conf = MPU9250_SENSOR_PWR_ON THEN MPU9250_PWR_PLL
    ELSE IF GyroOffSleeps(c) THEN BIT_PWR_MGMT1_SLEEP
    ELSE MPU9250_PWR_WAKEUP

\* faulty variant: the standby bits of every sensor are set or cleared
GyroPwr2SettingAll(pwr_conf, rd) ==
    IF pwr_conf = MPU9250_SENSOR_PWR_ON THEN 0
    ELSE Or8(MPU9250_PWR_ACCEL, MPU9250_PWR_GYRO)

\* mpu9250_set_gyro_power: pwr_2_setting, from the value read
GyroPwr2Setting(pwr_conf, rd) ==
    IF pwr_conf = MPU9250_SENSOR_PWR_ON THEN And8(rd, Not8(MPU9250_PWR_GYRO))
    ELSE Or8(rd, MPU9250_PWR_GYRO)

\* mpu9250_set_gyro_power from the read of power-management-2 on; m has read it
GyroPowerConfigure(m, pwr_conf) ==
    LET m2 == i2c_write_reg(m, "PWR_MGMT_1", GyroPwr1Value(m.conf, pwr_conf))
        m3 == i2c_release(i2c_write_reg(m2, "PWR_MGMT_2",
                              GyroPwr2Setting(pwr_conf, m.regs["PWR_MGMT_2"])))
        m4 == StoreConf(m3, "gyro_pwr", pwr_conf)
    IN Return(xtimer_usleep(m4, "PWR_CHANGE_SLEEP"), 0)

mpu9250_set_gyro_power(m, pwr_conf) ==
    IF m.conf.gyro_pwr = pwr_conf THEN Return(m, 0)
    ELSE IF AcquireFails(m) THEN Return(i2c_acquire(m), -1)
    ELSE GyroPowerConfigure(i2c_read_reg(i2c_acquire(m), "PWR_MGMT_2"), pwr_conf)

\* mpu9250_set_compass_power: "Configure power management 1 register if needed"
CompassTouchesPwr1(c) ==
    c.gyro_pwr = MPU9250_SENSOR_PWR_OFF /\ c.accel_pwr = MPU9250_SENSOR_PWR_OFF

\* mpu9250_set_compass_power: pwr_1_setting
CompassPwr1Setting(pwr_conf) ==
    IF pwr_conf = MPU9250_SENSOR_PWR_ON THEN MPU9250_PWR_WAKEUP ELSE BIT_PWR_MGMT1_SLEEP

\* mpu9250_set_compass_power: s1_do_setting
CompassS1DoSetting(pwr_conf) ==
    IF pwr_conf = MPU9250_SENSOR_PWR_ON THEN MPU9250_COMP_SINGLE_MEASURE
    ELSE MPU9250_COMP_POWER_DOWN

\* mpu9250_set_compass_power: usr_ctrl_setting, from the value read
CompassUsrCtrlSetting(pwr_conf, rd) ==
    IF pwr_conf = MPU9250_SENSOR_PWR_ON THEN Or8(rd, BIT_I2C_MST_EN)
    ELSE And8(rd, Not8(BIT_I2C_MST_EN))

\* mpu9250_set_compass_power from the read of user-control on; m has read it
CompassPowerConfigure(m, pwr_conf) ==
    LET m2 == IF CompassTouchesPwr1(m.conf)
              THEN i2c_write_reg(m, "PWR_MGMT_1", CompassPwr1Setting(pwr_conf))
              ELSE m
        m3 == i2c_write_reg(m2, "SLAVE1_DATA_OUT", CompassS1DoSetting(pwr_conf))
        m4 == i2c_release(i2c_write_reg(m3, "USER_CTRL",
                              CompassUsrCtrlSetting(pwr_conf, m.regs["USER_CTRL"])))
        m5 == StoreConf(m4, "compass_pwr", pwr_conf)
    IN Return(xtimer_usleep(m5, "PWR_CHANGE_SLEEP"), 0)

mpu9250_set_compass_power(m, pwr_conf) ==
    IF m.conf.compass_pwr = pwr_conf THEN Return(m, 0)
    ELSE IF AcquireFails(m) THEN Return(i2c_acquire(m), -1)
    ELSE CompassPowerConfigure(i2c_read_reg(i2c_acquire(m), "USER_CTRL"), pwr_conf)

(***************************************************************************)
(* Range & Rate Configurator.                                              *)
(***************************************************************************)
GyroRanges == {MPU9250_GYRO_FSR_250DPS, MPU9250_GYRO_FSR_500DPS,
               MPU9250_GYRO_FSR_1000DPS, MPU9250_GYRO_FSR_2000DPS}

AccelRanges == {MPU9250_ACCEL_FSR_2G, MPU9250_ACCEL_FSR_4G,
                MPU9250_ACCEL_FSR_8G, MPU9250_ACCEL_FSR_16G}

\* the cases of the switch in mpu9250_set_gyro_fsr
GyroFsrAccepted(fsr) == fsr \in GyroRanges

\* the cases of the switch in mpu9250_set_accel_fsr
AccelFsrAccepted(fsr) == fsr \in AccelRanges

mpu9250_set_gyro_fsr(m, fsr) ==
    IF m.conf.gyro_fsr = fsr THEN Return(m, 0)
    ELSE IF ~GyroFsrAccepted(fsr) THEN Return(m, -2)
    ELSE IF AcquireFails(m) THEN Return(i2c_acquire(m), -1)
    ELSE Return(StoreConf(i2c_release(i2c_write_reg(i2c_acquire(m), "GYRO_CFG", fsr * 8)),
                          "gyro_fsr", fsr), 0)

mpu9250_set_accel_fsr(m, fsr) ==
    IF m.conf.accel_fsr = fsr THEN Return(m, 0)
    ELSE IF ~AccelFsrAccepted(fsr) THEN Return(m, -2)
    ELSE IF AcquireFails(m) THEN Return(i2c_acquire(m), -1)
    ELSE Return(StoreConf(i2c_release(i2c_write_reg(i2c_acquire(m), "ACCEL_CFG", fsr * 8)),
                          "accel_fsr", fsr), 0)

\* faulty variant: the third threshold is the filter's bandwidth, 41
LpfSettingAtBandwidth(half_rate) ==
    IF half_rate >= 184 THEN MPU9250_FILTER_184HZ
    ELSE IF half_rate >= 92 THEN MPU9250_FILTER_92HZ
    ELSE IF half_rate >= 41 THEN MPU9250_FILTER_41HZ
    ELSE IF half_rate >= 20 THEN MPU9250_FILTER_20HZ
    ELSE IF half_rate >= 10 THEN MPU9250_FILTER_10HZ
    ELSE MPU9250_FILTER_5HZ

\* conf_lpf: the threshold table
LpfSetting(half_rate) ==
    IF half_rate >= 184 THEN MPU9250_FILTER_184HZ
    ELSE IF half_rate >= 92 THEN MPU9250_FILTER_92HZ
    ELSE IF half_rate >= 42 THEN MPU9250_FILTER_41HZ
    ELSE IF half_rate >= 20 THEN MPU9250_FILTER_20HZ
    ELSE IF half_rate >= 10 THEN MPU9250_FILTER_10HZ
    ELSE MPU9250_FILTER_5HZ

\* conf_lpf: the accelerometer's filter bits, from the value read
LpfAccelData(lpf_setting, rd) == Or8(And8(rd, Not8(15)), lpf_setting)

\* conf_lpf: the gyroscope's filter-choice bits, from the value read
LpfGyroData(rd) == And8(rd, Not8(3))

\* conf_lpf; the bus is held by the caller
conf_lpf(m, half_rate) ==
    LET m1 == i2c_write_reg(m, "CONFIG", LpfSetting(half_rate))
        m3 == ReadThenWrite(m1, "ACCEL_CFG2",
                            [rd \in 0..255 |-> LpfAccelData(LpfSetting(half_rate), rd)])
    IN ReadThenWrite(m3, "GYRO_CFG", [rd \in 0..255 |-> LpfGyroData(rd)])

\* mpu9250_set_sample_rate: the range check
SampleRateRejected(rate) ==
    rate < MPU9250_MIN_SAMPLE_RATE \/ rate > MPU9250_MAX_SAMPLE_RATE

\* a / b rounded to the nearest integer, halves up
RoundDiv(a, b) == (2 * a + b) \div (2 * b)

\* faulty variant: the divider of the quotient rounded to nearest
SampleRateDividerRounded(rate) == U8(RoundDiv(1000, rate) - 1)

\* mpu9250_set_sample_rate: uint8_t divider = (1000 / rate - 1)
SampleRateDivider(rate) == U8((1000 \div rate) - 1)

\* mpu9250_set_sample_rate: the rate stored for a divider
SampleRateOfDivider(divider) == 1000 \div (divider + 1)

\* mpu9250_set_sample_rate: conf_lpf(dev, (dev->conf.sample_rate >> 1))
SampleRateLpf(m) == conf_lpf(m, m.conf.sample_rate \div 2)

mpu9250_set_sample_rate(m, rate) ==
    IF SampleRateRejected(rate) THEN Return(m, -2)
    ELSE IF m.conf.sample_rate = rate THEN Return(m, 0)
    ELSE IF AcquireFails(m) THEN Return(i2c_acquire(m), -1)
    ELSE
      LET m1 == i2c_write_reg(i2c_acquire(m), "RATE_DIV", SampleRateDivider(rate))
          m2 == StoreConf(m1, "sample_rate", SampleRateOfDivider(SampleRateDivider(rate)))
      IN Return(i2c_release(SampleRateLpf(m2)), 0)

\* faulty variant: the requested rate is not compared with the sensor's rate
CompassRateRejectedByRange(c, rate) ==
    \/ rate < MPU9250_MIN_COMP_SMPL_RATE
    \/ rate > MPU9250_MAX_COMP_SMPL_RATE

\* mpu9250_set_compass_sample_rate: the range check
CompassRateRejected(c, rate) ==
    \/ rate < MPU9250_MIN_COMP_SMPL_RATE
    \/ rate > MPU9250_MAX_COMP_SMPL_RATE
    \/ rate > c.sample_rate

\* mpu9250_set_compass_sample_rate: uint8_t divider = (sample_rate / rate - 1)
CompassRateDivider(c, rate) == U8((c.sample_rate \div rate) - 1)

\* mpu9250_set_compass_sample_rate: the rate stored for a divider
CompassRateOfDivider(c, divider) == c.sample_rate \div (divider + 1)

\* dev->conf.compass_sample_rate = dev->conf.sample_rate / (divider + 1)
StoreCompassRate(m, divider) ==
    StoreConf(m, "compass_sample_rate", CompassRateOfDivider(m.conf, divider))

mpu9250_set_compass_sample_rate(m, rate) ==
    IF CompassRateRejected(m.conf, rate) THEN Return(m, -2)
    ELSE IF m.conf.compass_sample_rate = rate THEN Return(m, 0)
    ELSE IF AcquireFails(m) THEN Return(i2c_acquire(m), -1)
    ELSE
      LET m1 == i2c_write_reg(i2c_acquire(m), "SLAVE4_CTRL", CompassRateDivider(m.conf, rate))
      IN Return(StoreCompassRate(i2c_release(m1), CompassRateDivider(m.conf, rate)), 0)

(***************************************************************************)
(* Compass Bridge.                                                         *)
(***************************************************************************)
\* conf_bypass: the value written to user-control, from the value read
BypassUserCtrl(bypass_enable, rd) ==
    IF bypass_enable # 0 THEN And8(rd, Not8(BIT_I2C_MST_EN))
    ELSE Or8(rd, BIT_I2C_MST_EN)

\* conf_bypass: the value written to the interrupt-pin configuration
BypassPinCfg(bypass_enable) ==
    IF bypass_enable # 0 THEN BIT_I2C_BYPASS_EN ELSE REG_RESET

\* faulty variant: the pin configuration is written first, the master-enable
\* bit after the delay
ConfBypassPinFirst(m, bypass_enable) ==
    LET m2 == xtimer_usleep(
                i2c_write_reg(m, "INT_PIN_CFG", BypassPinCfg(bypass_enable)),
                "BYPASS_SLEEP")
    IN i2c_write_reg(i2c_read_reg(m2, "USER_CTRL"), "USER_CTRL",
                     BypassUserCtrl(bypass_enable, m.regs["USER_CTRL"]))

\* conf_bypass; the bus is held by the caller
conf_bypass(m, bypass_enable) ==
    LET m2 == ReadThenWrite(m, "USER_CTRL",
                            [rd \in 0..255 |-> BypassUserCtrl(bypass_enable, rd)])
    IN i2c_write_reg(xtimer_usleep(m2, "BYPASS_SLEEP"), "INT_PIN_CFG",
                     BypassPinCfg(bypass_enable))

\* compass_init: the answer of the identity register is the expected one
CompassAnswers(whoami) == whoami = MPU9250_COMP_WHOAMI_ANSWER

\* compass_init after the read of the identity register; m has read it
CompassConfigure(m) ==
    IF ~CompassAnswers(m.ext.whoami) THEN Return(m, -1)
    ELSE
      LET m2 == xtimer_usleep(
                  i2c_write_reg(m, "COMPASS_CNTL", MPU9250_COMP_POWER_DOWN),
                  "COMP_MODE_SLEEP")
          m3 == xtimer_usleep(
                  i2c_write_reg(m2, "COMPASS_CNTL", MPU9250_COMP_FUSE_ROM),
                  "COMP_MODE_SLEEP")
          m4 == i2c_read_reg(m3, "COMPASS_ASAX")
          m5 == StoreConf(m4, "compass_x_adj", m.ext.asa[1])
          m6 == StoreConf(m5, "compass_y_adj", m.ext.asa[2])
          m7 == StoreConf(m6, "compass_z_adj", m.ext.asa[3])
          m8 == xtimer_usleep(
                  i2c_write_reg(m7, "COMPASS_CNTL", MPU9250_COMP_POWER_DOWN),
                  "COMP_MODE_SLEEP")
          m9 == conf_bypass(m8, 0)
          m10 == i2c_write_reg(m9, "I2C_MST", BIT_WAIT_FOR_ES)
          m11 == i2c_write_reg(m10, "SLAVE0_ADDR", Or8(BIT_SLAVE_RW, DEV_COMP_ADDR))
          m12 == i2c_write_reg(m11, "SLAVE0_REG", COMPASS_DATA_START_REG)
          m13 == i2c_write_reg(m12, "SLAVE0_CTRL", Or8(BIT_SLAVE_EN, 6))
          m14 == i2c_write_reg(m13, "SLAVE1_ADDR", DEV_COMP_ADDR)
          m15 == i2c_write_reg(m14, "SLAVE1_REG", COMPASS_CNTL_REG)
          m16 == i2c_write_reg(m15, "SLAVE1_CTRL", Or8(BIT_SLAVE_EN, 1))
          m17 == i2c_write_reg(m16, "SLAVE1_DATA_OUT", MPU9250_COMP_SINGLE_MEASURE)
          m18 == i2c_write_reg(m17, "I2C_DELAY_CTRL",
                               Or8(BIT_SLV0_DELAY_EN, BIT_SLV1_DELAY_EN))
      IN Return(m18, 0)

\* compass_init; the bus is held by the caller
compass_init(m) == CompassConfigure(i2c_read_reg(conf_bypass(m, 1), "COMPASS_WHOAMI"))

(***************************************************************************)
(* Initialization.                                                         *)
(***************************************************************************)
\* mpu9250_reset_and_init: the path taken when compass_init fails
InitCompassFailure(m) == Return(i2c_release(m), -2)

\* mpu9250_reset_and_init; the results of i2c_acquire and of the setters are
\* not looked at
\* mpu9250_reset_and_init: temp &= ~(MPU9250_PWR_ACCEL | MPU9250_PWR_GYRO)
InitPwr2Value(temp) == And8(temp, Not8(Or8(MPU9250_PWR_ACCEL, MPU9250_PWR_GYRO)))

\* mpu9250_reset_and_init after compass_init; m.ret is what compass_init returned
InitAfterCompass(m) ==
    IF m.ret # 0 THEN InitCompassFailure(m)
    ELSE
      LET m9 == mpu9250_set_compass_sample_rate(i2c_release(m), 10)
          m10 == i2c_write_reg(i2c_acquire(m9), "PWR_MGMT_1", MPU9250_PWR_PLL)
          m12 == i2c_release(ReadThenWrite(m10, "PWR_MGMT_2",
                                         [temp \in 0..255 |-> InitPwr2Value(temp)]))
      IN Return(xtimer_usleep(m12, "PWR_CHANGE_SLEEP"), 0)

mpu9250_reset_and_init(m) ==
    LET m1 == i2c_write_reg(i2c_acquire(m), "PWR_MGMT_1", MPU9250_PWR_RESET)
        m2 == i2c_write_reg(xtimer_usleep(m1, "RESET_SLEEP"),
                            "PWR_MGMT_1", MPU9250_PWR_WAKEUP)
        m3 == i2c_release(m2)
        m4 == mpu9250_set_gyro_fsr(m3, MPU9250_GYRO_FSR_2000DPS)
        m5 == mpu9250_set_accel_fsr(m4, MPU9250_ACCEL_FSR_2G)
        m6 == mpu9250_set_sample_rate(m5, m.params.sample_rate)
        m7 == i2c_write_reg(i2c_acquire(m6), "INT_ENABLE", REG_RESET)
    IN InitAfterCompass(compass_init(m7))

\* mpu9250_init: dev->conf = DEFAULT_STATUS
InitConf(m) ==
    [m EXCEPT !.conf = DEFAULT_STATUS, !.log = Append(@, Ev("store", "conf", 0))]

\* mpu9250_init; i2c_up is the outcome of i2c_init_master
mpu9250_init(m, i2c_up) ==
    IF ~i2c_up THEN Return(InitConf(m), -1)
    ELSE mpu9250_reset_and_init(InitConf(m))

(***************************************************************************)
(* Wake-on-Motion Configurator and interrupts.                             *)
(***************************************************************************)
\* mpu9250_enable_wom, step 3: temp &= ~(MPU9250_PWR_ACCEL | (~MPU9250_PWR_GYRO))
WomPwr2Value(temp) ==
    And8(temp, Not8(Or8(MPU9250_PWR_ACCEL, Not8(MPU9250_PWR_GYRO))))

\* mpu9250_enable_wom, step 4: temp &= ~0x0F; temp |= MPU9250_ACCEL_CFG_WOM
WomAccelCfg2Value(temp) == Or8(And8(temp, Not8(15)), MPU9250_ACCEL_CFG_WOM)

\* faulty variant: the comparator bits are cleared and not set again
WomMotDetectCleared(temp) == And8(temp, Not8(MPU9250_ACCEL_INTEL_CFG))

\* mpu9250_enable_wom, step 6: temp &= ~INTEL_CFG; temp |= INTEL_CFG
WomMotDetectValue(temp) ==
    Or8(And8(temp, Not8(MPU9250_ACCEL_INTEL_CFG)), MPU9250_ACCEL_INTEL_CFG)

\* faulty variant: the snapshot is brought in line with the power state the
\* chip is left in
EnableWomUpdatingSnapshot(m, wom_threshold, wake_up_freq) ==
    IF AcquireFails(m) THEN Return(i2c_acquire(m), -1)
    ELSE
      LET m1 == i2c_write_reg(i2c_acquire(m), "WOM_THR", wom_threshold)
          m2 == i2c_write_reg(m1, "LP_ACCEL_ODR", wake_up_freq)
          m3 == i2c_write_reg(m2, "PWR_MGMT_1", MPU9250_PWR_CYCLE)
          m4 == StoreConf(i2c_release(m3), "gyro_pwr", MPU9250_SENSOR_PWR_OFF)
      IN Return(StoreConf(m4, "compass_pwr", MPU9250_SENSOR_PWR_OFF), 0)

mpu9250_enable_wom(m, wom_threshold, wake_up_freq) ==
    IF AcquireFails(m) THEN Return(i2c_acquire(m), -1)
    ELSE
      LET m1 == conf_bypass(i2c_acquire(m), 1)
          m2 == xtimer_usleep(
                  i2c_write_reg(m1, "COMPASS_CNTL", MPU9250_COMP_POWER_DOWN),
                  "COMP_MODE_SLEEP")
          m3 == conf_bypass(m2, 0)
          m4 == xtimer_usleep(
                  i2c_write_reg(m3, "PWR_MGMT_1", MPU9250_PWR_RESET), "RESET_SLEEP")
          m5 == i2c_write_reg(m4, "PWR_MGMT_1", MPU9250_PWR_WAKEUP)
          m7 == ReadThenWrite(m5, "PWR_MGMT_2", [temp \in 0..255 |-> WomPwr2Value(temp)])
          m9 == ReadThenWrite(m7, "ACCEL_CFG2",
                              [temp \in 0..255 |-> WomAccelCfg2Value(temp)])
          m10 == i2c_write_reg(m9, "INT_ENABLE", MPU9250_INT_WOM)
          m12 == ReadThenWrite(m10, "MOT_DETECT_CTRL",
                               [temp \in 0..255 |-> WomMotDetectValue(temp)])
          m13 == i2c_write_reg(m12, "WOM_THR", wom_threshold)
          m14 == i2c_write_reg(m13, "LP_ACCEL_ODR", wake_up_freq)
          m15 == i2c_write_reg(m14, "PWR_MGMT_1", MPU9250_PWR_CYCLE)
      IN Return(i2c_release(m15), 0)

mpu9250_set_interrupt(m, enable) ==
    IF AcquireFails(m) THEN Return(i2c_acquire(m), -1)
    ELSE IF enable # 0
    THEN LET m1 == i2c_write_reg(i2c_acquire(m), "INT_PIN_CFG", MPU9250_INT_EN_CFG)
             m2 == i2c_write_reg(m1, "INT_ENABLE", MPU9250_INT_EN)
         IN Return(i2c_release(m2), 0)
    ELSE Return(i2c_release(i2c_write_reg(i2c_acquire(m), "INT_ENABLE", REG_RESET)), 0)

\* mpu9250_read_int_status; out is <<status->wom, status->raw>>
\* mpu9250_read_int_status: the two flags of the status byte
IntStatusOf(temp) ==
    <<IF And8(temp, MPU9250_INT_STATUS_WOM) # 0 THEN 1 ELSE 0,
      IF And8(temp, MPU9250_INT_STATUS_RAW) # 0 THEN 1 ELSE 0>>

mpu9250_read_int_status(m) ==
    IF AcquireFails(m) THEN Return(i2c_acquire([m EXCEPT !.out = <<0, 0>>]), -1)
    ELSE
      LET m1 == i2c_read_reg(i2c_acquire(m), "INT_STATUS")
      IN Return(i2c_release([m1 EXCEPT !.out = IntStatusOf(m.ext.int_status)]), 0)

(***************************************************************************)
(* Measurement Reader.  int is 32 bits wide (the board of this repository  *)
(* is an ARM7), unsigned long is 32 bits wide.                             *)
(***************************************************************************)
\* C's integer division, truncating toward zero, for a positive divisor
TruncDiv(a, b) == IF a >= 0 THEN a \div b ELSE -((-a) \div b)

\* conversion of a 16-bit pattern to int16_t
S16(v) == IF (v % 65536) >= 32768 THEN (v % 65536) - 65536 ELSE v % 65536

\* mpu9250_read_gyro: the switch over dev->conf.gyro_fsr (0 stands for the default case)
GyroFullScale(fsr) ==
    IF fsr = MPU9250_GYRO_FSR_250DPS THEN 250
    ELSE IF fsr = MPU9250_GYRO_FSR_500DPS THEN 500
    ELSE IF fsr = MPU9250_GYRO_FSR_1000DPS THEN 1000
    ELSE IF fsr = MPU9250_GYRO_FSR_2000DPS THEN 2000
    ELSE 0

\* mpu9250_read_accel: the switch over dev->conf.accel_fsr (0 stands for the default case)
AccelFullScale(fsr) ==
    IF fsr = MPU9250_ACCEL_FSR_2G THEN 2000
    ELSE IF fsr = MPU9250_ACCEL_FSR_4G THEN 4000
    ELSE IF fsr = MPU9250_ACCEL_FSR_8G THEN 8000
    ELSE IF fsr = MPU9250_ACCEL_FSR_16G THEN 16000
    ELSE 0

\* faulty variant: the quotient is rounded down, not toward zero
ScaleAxisFloored(hi, lo, fsr) == S16((S16(hi * 256 + lo) * fsr) \div MAX_VALUE)

\* temp = (data[hi] << 8) | data[lo]; axis = (temp * fsr) / MAX_VALUE
ScaleAxis(hi, lo, fsr) == S16(TruncDiv(S16(hi * 256 + lo) * fsr, MAX_VALUE))

\* the three axes of a 6-byte big-endian sample
ScaleSample(data, fsr) ==
    <<ScaleAxis(data[1], data[2], fsr),
      ScaleAxis(data[3], data[4], fsr),
      ScaleAxis(data[5], data[6], fsr)>>

mpu9250_read_gyro(m) ==
    LET fsr == GyroFullScale(m.conf.gyro_fsr)
    IN IF fsr = 0 THEN Return(m, -2)
       ELSE IF AcquireFails(m) THEN Return(i2c_acquire(m), -1)
       ELSE
         LET m1 == i2c_release(i2c_read_reg(i2c_acquire(m), "GYRO_START"))
         IN Return([m1 EXCEPT !.out = ScaleSample(m.ext.data, fsr)], 0)

mpu9250_read_accel(m) ==
    LET fsr == AccelFullScale(m.conf.accel_fsr)
    IN IF fsr = 0 THEN Return(m, -2)
       ELSE IF AcquireFails(m) THEN Return(i2c_acquire(m), -1)
       ELSE
         LET m1 == i2c_release(i2c_read_reg(i2c_acquire(m), "ACCEL_START"))
         IN Return([m1 EXCEPT !.out = ScaleSample(m.ext.data, fsr)], 0)

\* the conversion of an out-of-range floating value to int16_t is undefined:
\* the build either wraps modulo 2^16 or saturates
CastS16(v, ub) ==
    IF v >= -32768 /\ v <= 32767 THEN v
    ELSE IF ub = 0 THEN S16(v)
    ELSE IF v > 32767 THEN 32767 ELSE -32768

\* faulty variant: the sensitivity adjustment lacks its + 1
CompassAxisTrimOnly(lo, hi, adj, ub) ==
    LET raw == S16(hi * 256 + lo)
        adjusted == CastS16(TruncDiv(raw * (adj - 128), 256), ub)
    IN TruncDiv(adjusted * 3, 10)

\* mpu9250_read_compass, one axis: little-endian raw value, sensitivity
\* adjustment ((adj - 128) * 0.5) / 128.0 + 1 = (adj + 128) / 256, then * 0.3
CompassAxis(lo, hi, adj, ub) ==
    LET raw == S16(hi * 256 + lo)
        adjusted == CastS16(TruncDiv(raw * (adj + 128), 256), ub)
    IN TruncDiv(adjusted * 3, 10)

mpu9250_read_compass(m) ==
    IF AcquireFails(m) THEN Return(i2c_acquire(m), -1)
    ELSE
      LET m1 == i2c_release(i2c_read_reg(i2c_acquire(m), "EXT_SENS_DATA_START"))
          d == m.ext.data
          ub == m.ext.ub
      IN Return([m1 EXCEPT !.out =
                   <<CompassAxis(d[1], d[2], m.conf.compass_x_adj, ub),
                     CompassAxis(d[3], d[4], m.conf.compass_y_adj, ub),
                     CompassAxis(d[5], d[6], m.conf.compass_z_adj, ub)>>], 0)

\* mpu9250_read_temperature: (((int32_t)temp * 1000LU) / 340) + (35 * 1000LU).
\* The product is computed in unsigned long, so a negative temp enters the
\* division as 2^32 + temp * 1000.  With 2^32 = 340 * 12632256 + 256 the
\* quotient is 12632256 + floor((256 + temp * 1000) / 340); the sum stays
\* below 2^31 and converts to int32_t unchanged.
TemperatureOf(hi, lo) ==
    LET temp == S16(hi * 256 + lo)
        quot == IF temp >= 0 THEN (temp * 1000) \div 340
                ELSE 12632256 + ((256 + temp * 1000) \div 340)
    IN quot + 35 * 1000

mpu9250_read_temperature(m) ==
    IF AcquireFails(m) THEN Return(i2c_acquire(m), -1)
    ELSE
      LET m1 == i2c_release(i2c_read_reg(i2c_acquire(m), "TEMP_START"))
      IN Return([m1 EXCEPT !.out = <<TemperatureOf(m.ext.data[1], m.ext.data[2])>>], 0)

(***************************************************************************)
(* Inputs of the calls.                                                    *)
(***************************************************************************)
\* Sets of failing acquire attempts of a call that makes at most n attempts:
\* the bus is unavailable for a run of at most MaxBusFailures consecutive
\* attempts.
FailSets(n) ==
    {{}} \cup {F \in {i..(i + k - 1) : i \in 1..n, k \in 1..MaxBusFailures} :
                 F \subseteq 1..n}

\* a bus on which every acquire succeeds
Reliable == {{}}

\* what the secondary device and the data registers answer when nothing is read
NoExt == [whoami |-> 0, asa |-> <<0, 0, 0>>, int_status |-> 0,
          data |-> <<0, 0, 0, 0, 0, 0>>, ub |-> 0]

PwrInputs == {MPU9250_SENSOR_PWR_OFF, MPU9250_SENSOR_PWR_ON}

\* two of the enumerated ranges and one value outside the enumeration
GyroFsrInputs == {MPU9250_GYRO_FSR_250DPS, MPU9250_GYRO_FSR_2000DPS, 4}

AccelFsrInputs == {MPU9250_ACCEL_FSR_2G, MPU9250_ACCEL_FSR_16G, 7}

\* dev->params.sample_rate
ParamRates == {0, 4, 50, 1000}

SampleRateInputs == {3, 4, 9, 600, 1000, 1001}

CompassRateInputs == {0, 1, 3, 10, 100, 101}

WhoamiInputs == {MPU9250_COMP_WHOAMI_ANSWER, 0}

AsaInputs == {<<128, 176, 255>>}

WomInputs == {<<10, 2>>}

IntStatusInputs == {0, 65}

SampleInputs == {<<64, 0, 128, 0, 255, 255>>}

\* bytes of a data register: the ends and the middle of both halves of a
\* 16-bit value
ByteInputs == {0, 1, 64, 127, 128, 255}

\* 6-byte samples that put every pair of ByteInputs on the first axis, the
\* swapped pair on the second and the complemented pair on the third
ReadSamples == {<<h, l, l, h, 255 - h, 255 - l>> : h \in ByteInputs, l \in ByteInputs}

(***************************************************************************)
(* The actions: one per public function, over the inputs given.            *)
(***************************************************************************)
\* the effect of a call that ran to m
Call(op, arg, m) ==
    /\ conf' = m.conf
    /\ regs' = m.regs
    /\ lastCall' = [op |-> op, arg |-> arg, ret |-> m.ret, log |-> m.log, out |-> m.out]
    /\ UNCHANGED params

Ready == phase = "ready"

Init ==
    /\ params \in [sample_rate : ParamRates]
    /\ conf = DEFAULT_STATUS
    /\ regs = [r \in AllRegs |-> REG_RESET]
    /\ phase = "constructed"
    /\ lastCall = [op |-> "none", arg |-> <<>>, ret |-> 0, log |-> <<>>, out |-> <<>>]

PhaseAfter(m) == IF m.ret = 0 THEN "ready" ELSE "failed"

InitCall(Ups, Whoamis, Fails) ==
    \E up \in Ups, w \in Whoamis, a \in AsaInputs, F \in Fails :
      LET m == mpu9250_init(Start(F, [NoExt EXCEPT !.whoami = w, !.asa = a]), up)
      IN /\ Call("mpu9250_init", <<w>> \o a, m)
         /\ phase' = PhaseAfter(m)

ResetAndInitCall(Whoamis, Fails) ==
    /\ phase # "constructed"
    /\ \E w \in Whoamis, a \in AsaInputs, F \in Fails :
         LET m == mpu9250_reset_and_init(Start(F, [NoExt EXCEPT !.whoami = w, !.asa = a]))
         IN /\ Call("mpu9250_reset_and_init", <<w>> \o a, m)
            /\ phase' = PhaseAfter(m)

SetAccelPowerCall(Fails) ==
    /\ Ready
    /\ \E p \in PwrInputs, F \in Fails :
         Call("mpu9250_set_accel_power", <<p>>, mpu9250_set_accel_power(Start(F, NoExt), p))
    /\ UNCHANGED phase

SetGyroPowerCall(Fails) ==
    /\ Ready
    /\ \E p \in PwrInputs, F \in Fails :
         Call("mpu9250_set_gyro_power", <<p>>, mpu9250_set_gyro_power(Start(F, NoExt), p))
    /\ UNCHANGED phase

SetCompassPowerCall(Fails) ==
    /\ Ready
    /\ \E p \in PwrInputs, F \in Fails :
         Call("mpu9250_set_compass_power", <<p>>,
              mpu9250_set_compass_power(Start(F, NoExt), p))
    /\ UNCHANGED phase

SetGyroFsrCall(Fsrs, Fails) ==
    /\ Ready
    /\ \E f \in Fsrs, F \in Fails :
         Call("mpu9250_set_gyro_fsr", <<f>>, mpu9250_set_gyro_fsr(Start(F, NoExt), f))
    /\ UNCHANGED phase

SetAccelFsrCall(Fsrs, Fails) ==
    /\ Ready
    /\ \E f \in Fsrs, F \in Fails :
         Call("mpu9250_set_accel_fsr", <<f>>, mpu9250_set_accel_fsr(Start(F, NoExt), f))
    /\ UNCHANGED phase

SetSampleRateCall(Rates, Fails) ==
    /\ Ready
    /\ \E r \in Rates, F \in Fails :
         Call("mpu9250_set_sample_rate", <<r>>, mpu9250_set_sample_rate(Start(F, NoExt), r))
    /\ UNCHANGED phase

SetCompassSampleRateCall(Rates, Fails) ==
    /\ Ready
    /\ \E r \in Rates, F \in Fails :
         Call("mpu9250_set_compass_sample_rate", <<r>>,
              mpu9250_set_compass_sample_rate(Start(F, NoExt), r))
    /\ UNCHANGED phase

\* conf_lpf on its own, called as mpu9250_set_sample_rate calls it: between
\* the caller's acquire and release
ConfLpfCall(HalfRates) ==
    /\ Ready
    /\ \E h \in HalfRates :
         Call("conf_lpf", <<h>>,
              Return(i2c_release(conf_lpf(i2c_acquire(Start({}, NoExt)), h)), 0))
    /\ UNCHANGED phase

\* Wake-on-motion leaves the normal operating mode: afterwards the caller reads
\* the interrupt status or re-runs the initialization, nothing else.
EnableWomCall(Fails) ==
    /\ Ready
    /\ \E w \in WomInputs, F \in Fails :
         LET m == mpu9250_enable_wom(Start(F, NoExt), w[1], w[2])
         IN /\ Call("mpu9250_enable_wom", w, m)
            /\ phase' = IF m.ret = 0 THEN "wom" ELSE phase

SetInterruptCall(Fails) ==
    /\ Ready
    /\ \E e \in {0, 1}, F \in Fails :
         Call("mpu9250_set_interrupt", <<e>>, mpu9250_set_interrupt(Start(F, NoExt), e))
    /\ UNCHANGED phase

ReadIntStatusCall(Fails) ==
    /\ phase \in {"ready", "wom"}
    /\ \E s \in IntStatusInputs, F \in Fails :
         Call("mpu9250_read_int_status", <<s>>,
              mpu9250_read_int_status(Start(F, [NoExt EXCEPT !.int_status = s])))
    /\ UNCHANGED phase

ReadGyroCall(Samples, Fails) ==
    /\ Ready
    /\ \E d \in Samples, F \in Fails :
         Call("mpu9250_read_gyro", d, mpu9250_read_gyro(Start(F, [NoExt EXCEPT !.data = d])))
    /\ UNCHANGED phase

ReadAccelCall(Samples, Fails) ==
    /\ Ready
    /\ \E d \in Samples, F \in Fails :
         Call("mpu9250_read_accel", d, mpu9250_read_accel(Start(F, [NoExt EXCEPT !.data = d])))
    /\ UNCHANGED phase

ReadCompassCall(Samples, Fails) ==
    /\ Ready
    /\ \E d \in Samples, u \in {0, 1}, F \in Fails :
         Call("mpu9250_read_compass", d,
              mpu9250_read_compass(Start(F, [NoExt EXCEPT !.data = d, !.ub = u])))
    /\ UNCHANGED phase

ReadTemperatureCall(Samples, Fails) ==
    /\ Ready
    /\ \E d \in Samples, F \in Fails :
         Call("mpu9250_read_temperature", <<d[1], d[2]>>,
              mpu9250_read_temperature(Start(F, [NoExt EXCEPT !.data = d])))
    /\ UNCHANGED phase

(***************************************************************************)
(* The driver as a whole: every public function, on a bus whose acquire    *)
(* may fail.                                                               *)
(***************************************************************************)
\* mpu9250_init constructs the descriptor: it runs on a fresh handle, or again
\* after it failed; a configured handle is re-initialized by
\* mpu9250_reset_and_init.  A working handle is re-initialized on a bus that
\* works; the re-initialization that recovers from a failure or from
\* wake-on-motion meets bus failures.
Next ==
    \/ phase \in {"constructed", "failed"} /\ InitCall(BOOLEAN, WhoamiInputs, FailSets(7))
    \/ ResetAndInitCall(WhoamiInputs, IF phase = "ready" THEN Reliable ELSE FailSets(7))
    \/ SetAccelPowerCall(FailSets(1))
    \/ SetGyroPowerCall(FailSets(1))
    \/ SetCompassPowerCall(FailSets(1))
    \/ SetGyroFsrCall({MPU9250_GYRO_FSR_2000DPS, 4}, FailSets(1))
    \/ SetAccelFsrCall({MPU9250_ACCEL_FSR_2G, 7}, FailSets(1))
    \/ SetSampleRateCall({3, 50}, FailSets(1))
    \/ SetCompassSampleRateCall({10, 101}, FailSets(1))
    \/ EnableWomCall(FailSets(1))
    \/ SetInterruptCall(FailSets(1))
    \/ ReadIntStatusCall(FailSets(1))
    \/ ReadGyroCall(SampleInputs, FailSets(1))
    \/ ReadAccelCall(SampleInputs, FailSets(1))
    \/ ReadCompassCall(SampleInputs, FailSets(1))
    \/ ReadTemperatureCall(SampleInputs, FailSets(1))

\* a handle constructed with the default sample rate
InitDriver == Init /\ params.sample_rate = 50

Spec == InitDriver /\ [][Next]_vars

(***************************************************************************)
(* The Power State Machine alone: initialization on a reliable bus, then   *)
(* any sequence of the three power setters.                                *)
(***************************************************************************)
NextPower ==
    \/ InitCall({TRUE}, {MPU9250_COMP_WHOAMI_ANSWER}, Reliable)
    \/ SetAccelPowerCall(FailSets(1))
    \/ SetGyroPowerCall(FailSets(1))
    \/ SetCompassPowerCall(FailSets(1))

SpecPower == Init /\ [][NextPower]_vars

(***************************************************************************)
(* The Range & Rate Configurator alone: initialization, then any sequence  *)
(* of range and rate setters.                                              *)
(***************************************************************************)
NextConfig ==
    \/ InitCall({TRUE}, WhoamiInputs, FailSets(7))
    \/ SetGyroFsrCall(GyroFsrInputs, FailSets(1))
    \/ SetAccelFsrCall(AccelFsrInputs, FailSets(1))
    \/ SetSampleRateCall(SampleRateInputs, FailSets(1))
    \/ SetCompassSampleRateCall(CompassRateInputs, FailSets(1))

SpecConfig == Init /\ [][NextConfig]_vars

(***************************************************************************)
(* The sample rate over its whole input range, on a reliable bus.          *)
(***************************************************************************)
NextRate ==
    \/ InitCall({TRUE}, {MPU9250_COMP_WHOAMI_ANSWER}, Reliable)
    \/ SetSampleRateCall(0..MaxRateInput, Reliable)

SpecRate == InitDriver /\ [][NextRate]_vars

(***************************************************************************)
(* The low-pass filter selection over every half rate a sample rate can    *)
(* give, with the gyroscope range varying beside it.                       *)
(***************************************************************************)
NextLpf ==
    \/ InitCall({TRUE}, {MPU9250_COMP_WHOAMI_ANSWER}, Reliable)
    \/ SetGyroFsrCall(GyroRanges, Reliable)
    \/ ConfLpfCall(0..MaxHalfRate)

SpecLpf == InitDriver /\ [][NextLpf]_vars

(***************************************************************************)
(* The Measurement Reader alone: initialization on a reliable bus, then    *)
(* any sequence of range selections and reads.                             *)
(***************************************************************************)
NextRead ==
    \/ InitCall({TRUE}, {MPU9250_COMP_WHOAMI_ANSWER}, Reliable)
    \/ SetGyroFsrCall(GyroRanges, Reliable)
    \/ SetAccelFsrCall(AccelRanges, Reliable)
    \/ ReadGyroCall(ReadSamples, FailSets(1))
    \/ ReadAccelCall(ReadSamples, FailSets(1))
    \/ ReadCompassCall(ReadSamples, FailSets(1))
    \/ ReadTemperatureCall(ReadSamples, FailSets(1))

SpecRead == InitDriver /\ [][NextRead]_vars

(***************************************************************************)
(* Properties of the Power State Machine.                                  *)
(***************************************************************************)
PowerOps == {"mpu9250_set_accel_power", "mpu9250_set_gyro_power",
             "mpu9250_set_compass_power"}

\* the snapshot field a power setter governs
PowerField(op) ==
    IF op = "mpu9250_set_accel_power" THEN "accel_pwr"
    ELSE IF op = "mpu9250_set_gyro_power" THEN "gyro_pwr"
    ELSE "compass_pwr"

\* the other two subsystems are OFF in snapshot c
OthersOff(c, op) ==
    \A f \in {"accel_pwr", "gyro_pwr", "compass_pwr"} \ {PowerField(op)} :
        c[f] = MPU9250_SENSOR_PWR_OFF

\* the call turned the subsystem of op from ON to OFF
TurnsOff(c, c2, op) ==
    /\ c[PowerField(op)] = MPU9250_SENSOR_PWR_ON
    /\ c2[PowerField(op)] = MPU9250_SENSOR_PWR_OFF

\* the call changed the power state of the subsystem of op
PowerTransition(c, c2, op) == c2[PowerField(op)] # c[PowerField(op)]

\* the log holds a write to reg
Wrote(log, reg) ==
    \E i \in 1..Len(log) : log[i][1] = "write" /\ log[i][2] = reg

\* the log holds a write of val to reg
WroteValue(log, reg, val) ==
    \E i \in 1..Len(log) : log[i] = <<"write", reg, val>>

\* the registers outside S are the same in r and r2
RegsSameExcept(r, r2, S) == \A x \in AllRegs \ S : r2[x] = r[x]

\* register reg differs between r and r2 in the bits of mask at most
OnlyBitsChange(r, r2, reg, mask) ==
    And8(r[reg], Not8(mask)) = And8(r2[reg], Not8(mask))

\* the standby bits of a subsystem in power-management-2 (the compass has none)
StandbyMask(op) ==
    IF op = "mpu9250_set_accel_power" THEN MPU9250_PWR_ACCEL
    ELSE IF op = "mpu9250_set_gyro_power" THEN MPU9250_PWR_GYRO
    ELSE 0

\* C1: in any sequence of power-setter calls after initialization, a call
\* writes the sleep value to power-management-1 if and only if it turns its
\* subsystem OFF while the other two subsystems are already OFF.
C1_SleepIffAllOff ==
    [][lastCall'.op \in PowerOps =>
         (WroteValue(lastCall'.log, "PWR_MGMT_1", BIT_PWR_MGMT1_SLEEP)
            <=> (/\ TurnsOff(conf, conf', lastCall'.op)
                 /\ OthersOff(conf, lastCall'.op)))]_vars

\* the gyroscope was the last subsystem turned off and the sleep value was written
C1_Witness ==
    /\ lastCall.op = "mpu9250_set_gyro_power"
    /\ WroteValue(lastCall.log, "PWR_MGMT_1", BIT_PWR_MGMT1_SLEEP)
    /\ conf.accel_pwr = MPU9250_SENSOR_PWR_OFF
    /\ conf.gyro_pwr = MPU9250_SENSOR_PWR_OFF
    /\ conf.compass_pwr = MPU9250_SENSOR_PWR_OFF

\* C2: a power transition of the accelerometer or of the compass writes
\* power-management-1 exactly when the other two subsystems are OFF; a power
\* transition of the gyroscope always writes it.  Besides power-management-1,
\* the accelerometer and the gyroscope change only their own standby bits in
\* power-management-2; the compass never writes power-management-2 and changes
\* only the master-enable bit of user-control and the slave-1 data-out register.
C2_PowerRegisters ==
    [][(lastCall'.op \in PowerOps /\ PowerTransition(conf, conf', lastCall'.op)) =>
         /\ lastCall'.op = "mpu9250_set_accel_power" =>
               /\ Wrote(lastCall'.log, "PWR_MGMT_1") <=> OthersOff(conf, lastCall'.op)
               /\ RegsSameExcept(regs, regs', {"PWR_MGMT_1", "PWR_MGMT_2"})
               /\ OnlyBitsChange(regs, regs', "PWR_MGMT_2", MPU9250_PWR_ACCEL)
         /\ lastCall'.op = "mpu9250_set_gyro_power" =>
               /\ Wrote(lastCall'.log, "PWR_MGMT_1")
               /\ RegsSameExcept(regs, regs', {"PWR_MGMT_1", "PWR_MGMT_2"})
               /\ OnlyBitsChange(regs, regs', "PWR_MGMT_2", MPU9250_PWR_GYRO)
         /\ lastCall'.op = "mpu9250_set_compass_power" =>
               /\ Wrote(lastCall'.log, "PWR_MGMT_1") <=> OthersOff(conf, lastCall'.op)
               /\ ~Wrote(lastCall'.log, "PWR_MGMT_2")
               /\ RegsSameExcept(regs, regs',
                                 {"PWR_MGMT_1", "USER_CTRL", "SLAVE1_DATA_OUT"})
               /\ OnlyBitsChange(regs, regs', "USER_CTRL", BIT_I2C_MST_EN)]_vars

\* the gyroscope was turned off while the accelerometer stays on, and
\* power-management-1 was written
C2_Witness ==
    /\ lastCall.op = "mpu9250_set_gyro_power"
    /\ lastCall.arg = <<MPU9250_SENSOR_PWR_OFF>>
    /\ lastCall.ret = 0
    /\ conf.accel_pwr = MPU9250_SENSOR_PWR_ON
    /\ conf.gyro_pwr = MPU9250_SENSOR_PWR_OFF
    /\ Wrote(lastCall.log, "PWR_MGMT_1")
    /\ Wrote(lastCall.log, "PWR_MGMT_2")

\* C2 as stated: power-management-1 is written only when the other two
\* subsystems are OFF, and every other power transition changes nothing but the
\* subsystem's standby bits in power-management-2.
C2_AsStated ==
    [][(lastCall'.op \in PowerOps /\ PowerTransition(conf, conf', lastCall'.op)) =>
         /\ Wrote(lastCall'.log, "PWR_MGMT_1") => OthersOff(conf, lastCall'.op)
         /\ ~OthersOff(conf, lastCall'.op) =>
               /\ RegsSameExcept(regs, regs', {"PWR_MGMT_2"})
               /\ OnlyBitsChange(regs, regs', "PWR_MGMT_2",
                                 StandbyMask(lastCall'.op))]_vars

\* C3: a power setter called with the state the snapshot already holds returns
\* success without bus acquire, register access or delay, and leaves the
\* snapshot and the registers unchanged.
C3_SameStateNoOp ==
    [][(lastCall'.op \in PowerOps /\ lastCall'.arg[1] = conf[PowerField(lastCall'.op)]) =>
         /\ lastCall'.ret = 0
         /\ lastCall'.log = <<>>
         /\ conf' = conf
         /\ regs' = regs]_vars

\* the accelerometer's setter was called with the state the snapshot holds
C3_Witness ==
    /\ lastCall.op = "mpu9250_set_accel_power"
    /\ lastCall.arg = <<conf.accel_pwr>>
    /\ lastCall.ret = 0
    /\ lastCall.log = <<>>

LpfBandwidth(code) ==
    IF code = MPU9250_FILTER_184HZ THEN 184
    ELSE IF code = MPU9250_FILTER_92HZ THEN 92
    ELSE IF code = MPU9250_FILTER_41HZ THEN 41
    ELSE IF code = MPU9250_FILTER_20HZ THEN 20
    ELSE IF code = MPU9250_FILTER_10HZ THEN 10
    ELSE IF code = MPU9250_FILTER_5HZ THEN 5
    ELSE 250

\* C5: after every successful mpu9250_set_sample_rate the bandwidth of the
\* low-pass filter code in the configuration register is at most half the
\* stored sample rate.
C5_LpfAtMostHalfRate ==
    [][(lastCall'.op = "mpu9250_set_sample_rate" /\ lastCall'.ret = 0) =>
         2 * LpfBandwidth(regs'["CONFIG"]) <= conf'.sample_rate]_vars

\* 4 Hz was requested: the rate stored is 4 and the filter programmed is the
\* 5 Hz one
C5_Witness ==
    /\ lastCall.op = "mpu9250_set_sample_rate"
    /\ lastCall.arg = <<4>>
    /\ lastCall.ret = 0
    /\ conf.sample_rate = 4
    /\ WroteValue(lastCall.log, "CONFIG", MPU9250_FILTER_5HZ)
    /\ regs["CONFIG"] = MPU9250_FILTER_5HZ

\* C6: after initialization, in every state reached by calls of the rate
\* setters, the stored compass sample rate is at most the stored sensor
\* sample rate.
C6_CompassRateAtMostSensorRate ==
    phase = "ready" => conf.compass_sample_rate <= conf.sample_rate

\* the sensor's rate was lowered to 4 Hz under a compass rate of 10 Hz
C6_Witness ==
    /\ phase = "ready"
    /\ lastCall.op = "mpu9250_set_sample_rate"
    /\ lastCall.ret = 0
    /\ conf.sample_rate = 4
    /\ conf.compass_sample_rate = 10

\* C7: for every requested compass rate r in [1,100] with r at most the sensor
\* rate (and other than the stored one), after mpu9250_set_compass_sample_rate
\* succeeds the stored compass rate is sensor_rate/(round(sensor_rate/r)-1+1),
\* with round either the truncation or the nearest integer.
C7_CompassRateFormula ==
    [][(/\ lastCall'.op = "mpu9250_set_compass_sample_rate"
        /\ lastCall'.arg[1] \in 1..100
        /\ lastCall'.arg[1] <= conf.sample_rate
        /\ lastCall'.arg[1] # conf.compass_sample_rate
        /\ lastCall'.ret = 0) =>
         LET r == lastCall'.arg[1]
             sensor_rate == conf.sample_rate
         IN conf'.compass_sample_rate \in
              {sensor_rate \div (((sensor_rate \div r) - 1) + 1),
               sensor_rate \div ((RoundDiv(sensor_rate, r) - 1) + 1)}]_vars

\* 1 Hz was requested at a sensor rate of 1000 Hz: the divider 999 was written
\* as 231 and the rate stored is 4
C7_Witness ==
    /\ lastCall.op = "mpu9250_set_compass_sample_rate"
    /\ lastCall.arg = <<1>>
    /\ lastCall.ret = 0
    /\ conf.sample_rate = 1000
    /\ WroteValue(lastCall.log, "SLAVE4_CTRL", 231)
    /\ conf.compass_sample_rate = 4

\* the argument a of setter op is outside the setter's domain in snapshot c
OutOfDomain(op, a, c) ==
    \/ op = "mpu9250_set_sample_rate" /\ (a < 4 \/ a > 1000)
    \/ op = "mpu9250_set_compass_sample_rate"
         /\ (a < 1 \/ a > 100 \/ a > c.sample_rate)
    \/ op = "mpu9250_set_gyro_fsr"
         /\ a \notin {MPU9250_GYRO_FSR_250DPS, MPU9250_GYRO_FSR_500DPS,
                      MPU9250_GYRO_FSR_1000DPS, MPU9250_GYRO_FSR_2000DPS}
    \/ op = "mpu9250_set_accel_fsr"
         /\ a \notin {MPU9250_ACCEL_FSR_2G, MPU9250_ACCEL_FSR_4G,
                      MPU9250_ACCEL_FSR_8G, MPU9250_ACCEL_FSR_16G}

\* C8: a rate or range setter given a value outside its domain returns an
\* error without bus acquire or register access, and leaves the snapshot and
\* the registers unchanged.
C8_OutOfDomainRejected ==
    [][OutOfDomain(lastCall'.op, lastCall'.arg[1], conf) =>
         /\ lastCall'.ret = -2
         /\ lastCall'.log = <<>>
         /\ conf' = conf
         /\ regs' = regs]_vars

\* a compass rate inside [1,100] but above the sensor's rate was refused
C8_Witness ==
    /\ lastCall.op = "mpu9250_set_compass_sample_rate"
    /\ lastCall.arg[1] \in 1..100
    /\ lastCall.arg[1] > conf.sample_rate
    /\ lastCall.ret = -2
    /\ lastCall.log = <<>>
    /\ phase = "ready"

(***************************************************************************)
(* Properties of the initialization and of the bus discipline.             *)
(***************************************************************************)
\* the log holds a read of reg
ReadOf(log, reg) ==
    \E i \in 1..Len(log) : log[i][1] = "read" /\ log[i][2] = reg

\* the call was an initialization in which the compass's identity register was
\* read and did not hold the expected value
IdentityMismatch(call) ==
    /\ call.op \in {"mpu9250_init", "mpu9250_reset_and_init"}
    /\ ReadOf(call.log, "COMPASS_WHOAMI")
    /\ call.arg[1] # MPU9250_COMP_WHOAMI_ANSWER

\* C9: when the compass identity register does not hold the expected value,
\* the initialization returns the device-not-found error and no subsystem is
\* marked ON in the snapshot.
C9_MismatchLeavesNothingOn ==
    IdentityMismatch(lastCall) =>
        /\ lastCall.ret = -2
        /\ conf.accel_pwr = MPU9250_SENSOR_PWR_OFF
        /\ conf.gyro_pwr = MPU9250_SENSOR_PWR_OFF
        /\ conf.compass_pwr = MPU9250_SENSOR_PWR_OFF

\* the initialization failed on the identity of the compass and the snapshot
\* marks the three subsystems ON
C9_Witness ==
    /\ IdentityMismatch(lastCall)
    /\ lastCall.ret = -2
    /\ conf.accel_pwr = MPU9250_SENSOR_PWR_ON
    /\ conf.gyro_pwr = MPU9250_SENSOR_PWR_ON
    /\ conf.compass_pwr = MPU9250_SENSOR_PWR_ON

\* the acquire and release events of a log are strictly paired, starting from
\* held: no acquire attempt while the bus is held, no release of a bus that is
\* not held, and the bus is not held at the end
RECURSIVE BusPaired(_, _)
BusPaired(log, held) ==
    IF log = <<>> THEN ~held
    ELSE IF Head(log)[1] \in {"acquire", "acquire_fail"}
    THEN ~held /\ BusPaired(Tail(log), Head(log)[1] = "acquire")
    ELSE IF Head(log)[1] = "release"
    THEN held /\ BusPaired(Tail(log), FALSE)
    ELSE BusPaired(Tail(log), held)

\* as BusPaired, without the condition on release
RECURSIVE BusFreeAtReturn(_, _)
BusFreeAtReturn(log, held) ==
    IF log = <<>> THEN ~held
    ELSE IF Head(log)[1] \in {"acquire", "acquire_fail"}
    THEN ~held /\ BusFreeAtReturn(Tail(log), Head(log)[1] = "acquire")
    ELSE IF Head(log)[1] = "release"
    THEN BusFreeAtReturn(Tail(log), FALSE)
    ELSE BusFreeAtReturn(Tail(log), held)

\* C10: in every operation, bus acquire and release are strictly paired: the
\* bus is not held when the operation returns, it is never acquired while
\* held, and every release ends a successful acquire.
C10_AcquireReleasePaired == BusPaired(lastCall.log, FALSE)

\* the first acquire of mpu9250_init failed; the chip was reset and the bus
\* released all the same
C10_Witness ==
    /\ lastCall.op = "mpu9250_init"
    /\ Len(lastCall.log) >= 6
    /\ lastCall.log[2] = <<"acquire_fail", "I2C", 0>>
    /\ lastCall.log[3] = <<"write", "PWR_MGMT_1", MPU9250_PWR_RESET>>
    /\ lastCall.log[6] = <<"release", "I2C", 0>>

\* the part of the pairing that concerns acquire and return only
NotHeldAtReturn == BusFreeAtReturn(lastCall.log, FALSE)

\* the log holds a failed attempt to acquire the bus
AcquireFailed(log) == \E i \in 1..Len(log) : log[i][1] = "acquire_fail"

\* every register read and write of the log happens while the bus is held,
\* starting from held
RECURSIVE AccessesHeld(_, _)
AccessesHeld(log, held) ==
    IF log = <<>> THEN TRUE
    ELSE IF Head(log)[1] = "acquire" THEN AccessesHeld(Tail(log), TRUE)
    ELSE IF Head(log)[1] \in {"acquire_fail", "release"}
    THEN AccessesHeld(Tail(log), FALSE)
    ELSE IF Head(log)[1] \in {"read", "write"}
    THEN held /\ AccessesHeld(Tail(log), held)
    ELSE AccessesHeld(Tail(log), held)

\* the operation met a failed acquire, returned the bus error, accessed no
\* register outside an acquired section and left the snapshot c as c2
BusErrorReported(call, c, c2) ==
    AcquireFailed(call.log) =>
        /\ call.ret = -1
        /\ AccessesHeld(call.log, FALSE)
        /\ c2 = c

\* C11: every public operation in which the bus cannot be acquired returns the
\* bus error, performs no register read or write without holding the bus, and
\* leaves the snapshot unmodified.
C11_BusErrorIsSynchronous == [][BusErrorReported(lastCall', conf, conf')]_vars

\* mpu9250_init on a handle whose snapshot already held the defaults: the first
\* acquire failed, registers were written all the same and success was returned
C11_Witness ==
    /\ lastCall.op = "mpu9250_init"
    /\ Len(lastCall.log) >= 2
    /\ lastCall.log[2][1] = "acquire_fail"
    /\ ~AccessesHeld(lastCall.log, FALSE)
    /\ lastCall.ret = 0

\* the same condition for every operation but the two initializations
BusErrorOutsideInit ==
    [][lastCall'.op \notin {"mpu9250_init", "mpu9250_reset_and_init"}
         => BusErrorReported(lastCall', conf, conf')]_vars

(***************************************************************************)
(* Properties of the Measurement Reader.                                   *)
(***************************************************************************)
\* the signed 16-bit value of two bytes, most significant first
Raw16(hi, lo) == IF hi >= 128 THEN hi * 256 + lo - 65536 ELSE hi * 256 + lo

\* the quotient of signed integers, rounded toward zero, for b > 0
Quotient(a, b) == IF a >= 0 THEN a \div b ELSE -((-a) \div b)

\* the temperature in milli-degrees of a raw value, in signed arithmetic
MilliCelsius(raw) == Quotient(raw * 1000, 340) + 35000

\* C12: for every signed 16-bit big-endian raw temperature, negative ones
\* included, a successful mpu9250_read_temperature outputs
\* (raw * 1000) / 340 + 35000 computed in signed arithmetic; raw 0 gives 35000.
C12_TemperatureSigned ==
    (lastCall.op = "mpu9250_read_temperature" /\ lastCall.ret = 0) =>
        lastCall.out[1] = MilliCelsius(Raw16(lastCall.arg[1], lastCall.arg[2]))

\* the raw temperature -1 (bytes 0xFF 0xFF) read as 12667253 milli-degrees
C12_Witness ==
    /\ lastCall.op = "mpu9250_read_temperature"
    /\ lastCall.ret = 0
    /\ lastCall.arg = <<255, 255>>
    /\ lastCall.out = <<12667253>>

\* the formula of C12 for the raw values that are not negative
TemperatureOfNonNegative ==
    (/\ lastCall.op = "mpu9250_read_temperature"
     /\ lastCall.ret = 0
     /\ Raw16(lastCall.arg[1], lastCall.arg[2]) >= 0) =>
        lastCall.out[1] = MilliCelsius(Raw16(lastCall.arg[1], lastCall.arg[2]))

\* raw 0 is read as 35000
TemperatureOfZero ==
    (/\ lastCall.op = "mpu9250_read_temperature"
     /\ lastCall.ret = 0
     /\ lastCall.arg = <<0, 0>>) => lastCall.out = <<35000>>

(***************************************************************************)
(* Properties of the Wake-on-Motion Configurator.                          *)
(***************************************************************************)
\* mpu9250_enable_wom ran to its end
WomEnabled(call) == call.op = "mpu9250_enable_wom" /\ call.ret = 0

\* C13: after mpu9250_enable_wom completes, power-management-2 has the
\* accelerometer standby bits clear and the gyroscope standby bits set,
\* whatever the register held before the call.
C13_WomDisablesGyro ==
    WomEnabled(lastCall) =>
        /\ And8(regs["PWR_MGMT_2"], MPU9250_PWR_ACCEL) = 0
        /\ And8(regs["PWR_MGMT_2"], MPU9250_PWR_GYRO) = MPU9250_PWR_GYRO

\* mpu9250_enable_wom completed and left power-management-2 at 0: no standby
\* bit set, the gyroscope enabled
C13_Witness ==
    /\ WomEnabled(lastCall)
    /\ WroteValue(lastCall.log, "PWR_MGMT_2", 0)
    /\ regs["PWR_MGMT_2"] = 0

\* the half of C13 that concerns the accelerometer
WomEnablesAccel ==
    WomEnabled(lastCall) => And8(regs["PWR_MGMT_2"], MPU9250_PWR_ACCEL) = 0

\* C14: mpu9250_enable_wom modifies no field of the snapshot.
C14_WomKeepsSnapshot ==
    [][lastCall'.op = "mpu9250_enable_wom" => conf' = conf]_vars

\* mpu9250_enable_wom completed: the chip cycles with the compass powered
\* down, and the snapshot still marks the gyroscope and the compass ON
C14_Witness ==
    /\ WomEnabled(lastCall)
    /\ regs["PWR_MGMT_1"] = MPU9250_PWR_CYCLE
    /\ regs["COMPASS_CNTL"] = MPU9250_COMP_POWER_DOWN
    /\ conf.gyro_pwr = MPU9250_SENSOR_PWR_ON
    /\ conf.compass_pwr = MPU9250_SENSOR_PWR_ON
    /\ conf.compass_x_adj = 128

(***************************************************************************)
(* Properties of the rates after initialization.                           *)
(***************************************************************************)
\* C15: once the initialization has returned success, for every default
\* sample rate given at construction, the snapshot's sample rate lies in
\* [4, 1000] and its compass rate in [1, 100], and both stay there after any
\* sequence of setter calls.
C15_RatesInRange ==
    phase = "ready" =>
        /\ conf.sample_rate \in MPU9250_MIN_SAMPLE_RATE..MPU9250_MAX_SAMPLE_RATE
        /\ conf.compass_sample_rate \in
               MPU9250_MIN_COMP_SMPL_RATE..MPU9250_MAX_COMP_SMPL_RATE

\* a handle constructed with the sample rate 4 and initialized with success on
\* a bus that never failed: the compass rate of the snapshot is 0
C15_Witness ==
    /\ phase = "ready"
    /\ params.sample_rate = MPU9250_MIN_SAMPLE_RATE
    /\ lastCall.op = "mpu9250_init"
    /\ lastCall.ret = 0
    /\ ~AcquireFailed(lastCall.log)
    /\ conf.sample_rate = MPU9250_MIN_SAMPLE_RATE
    /\ conf.compass_sample_rate = 0

\* the full scale of a gyroscope range, in degrees per second
GyroDps(code) ==
    CASE code = MPU9250_GYRO_FSR_250DPS -> 250
      [] code = MPU9250_GYRO_FSR_500DPS -> 500
      [] code = MPU9250_GYRO_FSR_1000DPS -> 1000
      [] code = MPU9250_GYRO_FSR_2000DPS -> 2000

\* the full scale of an accelerometer range (2, 4, 8, 16 g), in thousandths
\* of g, the unit of the output
AccelMilliG(code) ==
    CASE code = MPU9250_ACCEL_FSR_2G -> 2 * 1000
      [] code = MPU9250_ACCEL_FSR_4G -> 4 * 1000
      [] code = MPU9250_ACCEL_FSR_8G -> 8 * 1000
      [] code = MPU9250_ACCEL_FSR_16G -> 16 * 1000

Abs(x) == IF x >= 0 THEN x ELSE -x

\* the full scale the snapshot c holds for the read op
FullScaleAt(op, c) ==
    IF op = "mpu9250_read_gyro" THEN GyroDps(c.gyro_fsr) ELSE AccelMilliG(c.accel_fsr)

\* C16: for every 6-byte sample and every configured range, a successful
\* mpu9250_read_gyro or mpu9250_read_accel outputs per axis
\* raw * full_scale / 32767, raw being the signed 16-bit big-endian value of
\* the axis bytes and full_scale the range of the snapshot at the time of the
\* read; bytes 0x40 0x00 at 250 dps give 125; the magnitude of the result
\* never exceeds full_scale.
C16_ScaledByFullScale ==
    (lastCall.op \in {"mpu9250_read_gyro", "mpu9250_read_accel"} /\ lastCall.ret = 0) =>
        /\ \A i \in 1..3 :
             /\ lastCall.out[i] =
                    Quotient(Raw16(lastCall.arg[2 * i - 1], lastCall.arg[2 * i])
                                 * FullScaleAt(lastCall.op, conf), 32767)
             /\ Abs(lastCall.out[i]) <= FullScaleAt(lastCall.op, conf)
        /\ (/\ lastCall.op = "mpu9250_read_gyro"
            /\ conf.gyro_fsr = MPU9250_GYRO_FSR_250DPS
            /\ lastCall.arg[1] = 64
            /\ lastCall.arg[2] = 0) => lastCall.out[1] = 125

\* the gyroscope read at 250 dps with the first axis at 0x4000 and the third
\* at 0xBFFF (-16385): 125 and -125
C16_Witness ==
    /\ lastCall.op = "mpu9250_read_gyro"
    /\ lastCall.ret = 0
    /\ conf.gyro_fsr = MPU9250_GYRO_FSR_250DPS
    /\ lastCall.arg = <<64, 0, 0, 64, 191, 255>>
    /\ lastCall.out[1] = 125
    /\ lastCall.out[3] = -125

\* the accelerometer read at 16 g with the first axis at 0x8000 (-32768): the
\* negative full scale
AccelFullScaleReached ==
    /\ lastCall.op = "mpu9250_read_accel"
    /\ lastCall.ret = 0
    /\ conf.accel_fsr = MPU9250_ACCEL_FSR_16G
    /\ lastCall.arg[1] = 128
    /\ lastCall.arg[2] = 0
    /\ lastCall.out[1] = -16000

\* the sensitivity trim the snapshot c holds for axis i
TrimOf(c, i) ==
    IF i = 1 THEN c.compass_x_adj
    ELSE IF i = 2 THEN c.compass_y_adj
    ELSE c.compass_z_adj

\* C17: on an axis whose sensitivity trim is 128, mpu9250_read_compass leaves
\* the raw value (signed 16-bit, little-endian) unchanged by the trim step:
\* the output is the raw value times 0.3, rounded toward zero.
C17_MidpointTrimIsNeutral ==
    (lastCall.op = "mpu9250_read_compass" /\ lastCall.ret = 0) =>
        \A i \in 1..3 :
            TrimOf(conf, i) = 128 =>
                lastCall.out[i] =
                    Quotient(Raw16(lastCall.arg[2 * i], lastCall.arg[2 * i - 1]) * 3, 10)

\* the compass read with trim 128 on the first axis and the bytes 0x01 0x80
\* (raw -32767): -9830
C17_Witness ==
    /\ lastCall.op = "mpu9250_read_compass"
    /\ lastCall.ret = 0
    /\ conf.compass_x_adj = 128
    /\ lastCall.arg[1] = 1
    /\ lastCall.arg[2] = 128
    /\ lastCall.out[1] = -9830

(***************************************************************************)
(* Properties of the order of bus events.  A pattern is a sequence of      *)
(* <<kind, what, values>>: an event matches when its kind and its register *)
(* (or delay, or field) are the pattern's and its value is in values.      *)
(***************************************************************************)
Bytes == 0..255

\* the byte values with every bit of mask clear / set
BitsClear(mask) == {v \in Bytes : And8(v, mask) = 0}

BitsSet(mask) == {v \in Bytes : And8(v, mask) = mask}

Matches(e, p) == e[1] = p[1] /\ e[2] = p[2] /\ e[3] \in p[3]

\* the events of log from position from on are those of pat, one after the
\* other with nothing between
MatchesAt(log, from, pat) ==
    /\ from >= 1
    /\ Len(log) >= from + Len(pat) - 1
    /\ \A k \in 1..Len(pat) : Matches(log[from + k - 1], pat[k])

\* the position of the first read of reg in log
ReadPos(log, reg) ==
    CHOOSE i \in 1..Len(log) :
        /\ log[i][1] = "read" /\ log[i][2] = reg
        /\ \A j \in 1..(i - 1) : ~(log[j][1] = "read" /\ log[j][2] = reg)

\* bypass enabled: master-enable cleared, settle delay, bypass bit asserted
BypassEnabling ==
    << <<"read", "USER_CTRL", {0}>>,
       <<"write", "USER_CTRL", BitsClear(BIT_I2C_MST_EN)>>,
       <<"delay", "BYPASS_SLEEP", {0}>>,
       <<"write", "INT_PIN_CFG", BitsSet(BIT_I2C_BYPASS_EN)>> >>

\* bypass disabled: master-enable reasserted, settle delay, bypass bit cleared
BypassDisabling ==
    << <<"read", "USER_CTRL", {0}>>,
       <<"write", "USER_CTRL", BitsSet(BIT_I2C_MST_EN)>>,
       <<"delay", "BYPASS_SLEEP", {0}>>,
       <<"write", "INT_PIN_CFG", BitsClear(BIT_I2C_BYPASS_EN)>> >>

\* a write of one of vals to the compass's control register, then the delay
CompassMode(vals) ==
    << <<"write", "COMPASS_CNTL", vals>>, <<"delay", "COMP_MODE_SLEEP", {0}>> >>

\* the prescribed order of the bridge setup after the identity was read
BridgeSetup ==
    CompassMode({MPU9250_COMP_POWER_DOWN})
    \o CompassMode({MPU9250_COMP_FUSE_ROM})
    \o << <<"read", "COMPASS_ASAX", {0}>>,
          <<"store", "compass_x_adj", Bytes>>,
          <<"store", "compass_y_adj", Bytes>>,
          <<"store", "compass_z_adj", Bytes>> >>
    \o CompassMode({MPU9250_COMP_POWER_DOWN})
    \o BypassDisabling
    \o << <<"write", "I2C_MST", Bytes>>,
          <<"write", "SLAVE0_ADDR", {BIT_SLAVE_RW + DEV_COMP_ADDR}>>,
          <<"write", "SLAVE0_REG", {COMPASS_DATA_START_REG}>>,
          <<"write", "SLAVE0_CTRL", {BIT_SLAVE_EN + 6}>>,
          <<"write", "SLAVE1_ADDR", {DEV_COMP_ADDR}>>,
          <<"write", "SLAVE1_REG", {COMPASS_CNTL_REG}>>,
          <<"write", "SLAVE1_CTRL", {BIT_SLAVE_EN + 1}>>,
          <<"write", "SLAVE1_DATA_OUT", {MPU9250_COMP_SINGLE_MEASURE}>>,
          <<"write", "I2C_DELAY_CTRL", {BIT_SLV0_DELAY_EN + BIT_SLV1_DELAY_EN}>> >>

\* the call is an initialization that reached compass_init
RanCompassInit(call) ==
    /\ call.op \in {"mpu9250_init", "mpu9250_reset_and_init"}
    /\ ReadOf(call.log, "COMPASS_WHOAMI")

WomOrder(wom_threshold, wake_up_freq) ==
    << <<"acquire", "I2C", {0}>> >>
    \o BypassEnabling
    \o CompassMode({MPU9250_COMP_POWER_DOWN})
    \o BypassDisabling
    \o << <<"write", "PWR_MGMT_1", {MPU9250_PWR_RESET}>>,
          <<"delay", "RESET_SLEEP", {0}>>,
          <<"write", "PWR_MGMT_1", {MPU9250_PWR_WAKEUP}>>,
          <<"read", "PWR_MGMT_2", {0}>>,
          <<"write", "PWR_MGMT_2", Bytes>>,
          <<"read", "ACCEL_CFG2", {0}>>,
          <<"write", "ACCEL_CFG2", {v \in Bytes : And8(v, 15) = MPU9250_ACCEL_CFG_WOM}>>,
          <<"write", "INT_ENABLE", {MPU9250_INT_WOM}>>,
          <<"read", "MOT_DETECT_CTRL", {0}>>,
          <<"write", "MOT_DETECT_CTRL", BitsSet(MPU9250_ACCEL_INTEL_CFG)>>,
          <<"write", "WOM_THR", {wom_threshold}>>,
          <<"write", "LP_ACCEL_ODR", {wake_up_freq}>>,
          <<"write", "PWR_MGMT_1", {MPU9250_PWR_CYCLE}>>,
          <<"release", "I2C", {0}>> >>

\* C19: mpu9250_enable_wom issues its register writes in one strict order
\* inside a single bus acquisition: compass power-down under bypass, bypass
\* disabled, chip reset and the reset delay, wake-up, power-management-2,
\* the accelerometer's wake filter bandwidth, the wake-on-motion interrupt
\* enable, the motion comparator enable, the threshold, the low-power polling
\* frequency, and last the switch of power-management-1 to cycle mode; no
\* register is written after that.
C19_WomOrder ==
    WomEnabled(lastCall) =>
        /\ Len(lastCall.log) = Len(WomOrder(lastCall.arg[1], lastCall.arg[2]))
        /\ MatchesAt(lastCall.log, 1, WomOrder(lastCall.arg[1], lastCall.arg[2]))

\* mpu9250_enable_wom(10, 2) completed: threshold and frequency are in their
\* registers and power-management-1 holds the cycle bit
C19_Witness ==
    /\ WomEnabled(lastCall)
    /\ lastCall.arg = <<10, 2>>
    /\ regs["WOM_THR"] = 10
    /\ regs["LP_ACCEL_ODR"] = 2
    /\ regs["MOT_DETECT_CTRL"] = MPU9250_ACCEL_INTEL_CFG
    /\ lastCall.log[Len(lastCall.log) - 1] = <<"write", "PWR_MGMT_1", MPU9250_PWR_CYCLE>>

\* the end of a power setter that changed field to val: the bus is released,
\* then the snapshot is updated, then the settle delay runs
TransitionEnd(field, val) ==
    << <<"release", "I2C", {0}>>,
       <<"store", field, {val}>>,
       <<"delay", "PWR_CHANGE_SLEEP", {0}>> >>

\* C20: every power setter call that changes its subsystem's state updates
\* the snapshot only after its register writes are done and the bus is
\* released, and runs the settle delay after the transition, as the last
\* thing before it returns.
C20_StoreAfterRelease ==
    [][(/\ lastCall'.op \in PowerOps
        /\ PowerTransition(conf, conf', lastCall'.op)) =>
           LET log == lastCall'.log
               n == Len(log)
           IN /\ lastCall'.ret = 0
              /\ MatchesAt(log, n - 2, TransitionEnd(PowerField(lastCall'.op),
                                                     lastCall'.arg[1]))
              /\ log[1] = <<"acquire", "I2C", 0>>
              /\ Wrote(log, "PWR_MGMT_2") \/ Wrote(log, "USER_CTRL")
              /\ \A k \in 2..(n - 3) : log[k][1] \in {"read", "write"}]_vars

\* the compass was switched off: its registers were written, the bus was
\* released, compass_pwr was stored, and the delay closed the call
C20_Witness ==
    /\ lastCall.op = "mpu9250_set_compass_power"
    /\ lastCall.arg = <<MPU9250_SENSOR_PWR_OFF>>
    /\ lastCall.ret = 0
    /\ conf.compass_pwr = MPU9250_SENSOR_PWR_OFF
    /\ Wrote(lastCall.log, "USER_CTRL")
    /\ Len(lastCall.log) >= 4
    /\ lastCall.log[Len(lastCall.log) - 1] =
           <<"store", "compass_pwr", MPU9250_SENSOR_PWR_OFF>>
    /\ lastCall.log[Len(lastCall.log)] = <<"delay", "PWR_CHANGE_SLEEP", 0>>

(***************************************************************************)
(* Properties of the low-pass filter selection.                            *)
(***************************************************************************)
\* the filter code prescribed for a half rate
FilterFor(h) ==
    CASE h >= 184 -> MPU9250_FILTER_184HZ
      [] h \in 92..183 -> MPU9250_FILTER_92HZ
      [] h \in 42..91 -> MPU9250_FILTER_41HZ
      [] h \in 20..41 -> MPU9250_FILTER_20HZ
      [] h \in 10..19 -> MPU9250_FILTER_10HZ
      [] h < 10 -> MPU9250_FILTER_5HZ

\* C21: conf_lpf selects the filter as a monotonic step function of the half
\* rate (>= 184: 184 Hz code, >= 92: 92 Hz, >= 42: 41 Hz, >= 20: 20 Hz,
\* >= 10: 10 Hz, below 10: 5 Hz); it writes that code to the configuration
\* register and to the low four bits of accelerometer configuration 2, whose
\* other bits it preserves, and clears the two filter-choice bits of the
\* gyroscope configuration register, whose other bits it preserves.
C21_LpfStepFunction ==
    [][lastCall'.op = "conf_lpf" =>
         /\ regs'["CONFIG"] = FilterFor(lastCall'.arg[1])
         /\ And8(regs'["ACCEL_CFG2"], 15) = FilterFor(lastCall'.arg[1])
         /\ OnlyBitsChange(regs, regs', "ACCEL_CFG2", 15)
         /\ And8(regs'["GYRO_CFG"], 3) = 0
         /\ OnlyBitsChange(regs, regs', "GYRO_CFG", 3)
         /\ RegsSameExcept(regs, regs', {"CONFIG", "ACCEL_CFG2", "GYRO_CFG"})
         /\ (lastCall.op = "conf_lpf" /\ lastCall.arg[1] <= lastCall'.arg[1])
                => LpfBandwidth(regs["CONFIG"]) <= LpfBandwidth(regs'["CONFIG"])]_vars

\* conf_lpf(42) at the 2000 dps range: the 41 Hz code is in both filter
\* registers and the range bits of the gyroscope configuration are in place
C21_Witness ==
    /\ lastCall.op = "conf_lpf"
    /\ lastCall.arg = <<42>>
    /\ regs["CONFIG"] = MPU9250_FILTER_41HZ
    /\ regs["ACCEL_CFG2"] = MPU9250_FILTER_41HZ
    /\ conf.gyro_fsr = MPU9250_GYRO_FSR_2000DPS
    /\ regs["GYRO_CFG"] = MPU9250_GYRO_FSR_2000DPS * 8

(***************************************************************************)
(* Properties of the snapshot against the chip.                            *)
(***************************************************************************)
\* the snapshot c describes the registers r: the three subsystems ON with no
\* standby bit set, the range bits of both configuration registers those of
\* the snapshot's ranges, the rate divider the one of the snapshot's rate
SnapshotAgrees(c, r) ==
    /\ c.accel_pwr = MPU9250_SENSOR_PWR_ON
    /\ c.gyro_pwr = MPU9250_SENSOR_PWR_ON
    /\ c.compass_pwr = MPU9250_SENSOR_PWR_ON
    /\ And8(r["PWR_MGMT_2"], MPU9250_PWR_ACCEL + MPU9250_PWR_GYRO) = 0
    /\ And8(r["GYRO_CFG"], 24) = c.gyro_fsr * 8
    /\ And8(r["ACCEL_CFG"], 24) = c.accel_fsr * 8
    /\ c.sample_rate = 1000 \div (r["RATE_DIV"] + 1)

\* the call is an initialization that returned success
Initialized(call) ==
    call.op \in {"mpu9250_init", "mpu9250_reset_and_init"} /\ call.ret = 0

\* C22: after every successful run of the initialization, a re-run of
\* mpu9250_reset_and_init on a configured handle included, the snapshot agrees
\* with the registers just programmed: power fields ON with the standby bits
\* clear, the chip's full-scale fields equal to the snapshot's ranges, the
\* rate divider corresponding to the snapshot's sample rate.
C22_SnapshotAgreesAfterInit == Initialized(lastCall) => SnapshotAgrees(conf, regs)

\* mpu9250_reset_and_init re-run with success on a bus that never failed: the
\* snapshot holds 2000 dps and 50 Hz, the chip's registers their reset values
\* (250 dps, 1000 Hz)
C22_Witness ==
    /\ lastCall.op = "mpu9250_reset_and_init"
    /\ lastCall.ret = 0
    /\ ~AcquireFailed(lastCall.log)
    /\ conf.gyro_fsr = MPU9250_GYRO_FSR_2000DPS
    /\ regs["GYRO_CFG"] = REG_RESET
    /\ conf.sample_rate = 50
    /\ regs["RATE_DIV"] = REG_RESET

\* the agreement after mpu9250_init, which starts from DEFAULT_STATUS, on a
\* bus that never failed
AgreesAfterFirstInit ==
    (/\ lastCall.op = "mpu9250_init"
     /\ lastCall.ret = 0
     /\ ~AcquireFailed(lastCall.log)) => SnapshotAgrees(conf, regs)

\* a re-run that leaves a power field of the snapshot OFF while the chip has
\* every standby bit clear
ReinitKeepsPowerOff ==
    /\ lastCall.op = "mpu9250_reset_and_init"
    /\ lastCall.ret = 0
    /\ ~AcquireFailed(lastCall.log)
    /\ conf.gyro_pwr = MPU9250_SENSOR_PWR_OFF
    /\ regs["PWR_MGMT_2"] = REG_RESET

(***************************************************************************)
(* Properties of the compass polling divider.                              *)
(***************************************************************************)
\* the step is a call of mpu9250_set_compass_sample_rate that passed the
\* validation with a sensor rate of c in [4, 1000] and programmed a divider
CompassDividerProgrammed(call, c) ==
    /\ call.op = "mpu9250_set_compass_sample_rate"
    /\ call.ret = 0
    /\ call.arg[1] \in MPU9250_MIN_COMP_SMPL_RATE..MPU9250_MAX_COMP_SMPL_RATE
    /\ c.sample_rate \in MPU9250_MIN_SAMPLE_RATE..MPU9250_MAX_SAMPLE_RATE
    /\ call.arg[1] <= c.sample_rate
    /\ Wrote(call.log, "SLAVE4_CTRL")

\* C23: for every call of mpu9250_set_compass_sample_rate that passes the
\* validation, sensor_rate / rate - 1 fits the 8-bit divider without wrapping
\* modulo 256: the divider written to the polling-divider register is exactly
\* sensor_rate / rate - 1, and the stored compass rate is at least 1.
C23_DividerFitsByte ==
    [][CompassDividerProgrammed(lastCall', conf) =>
         /\ (conf.sample_rate \div lastCall'.arg[1]) - 1 <= 255
         /\ WroteValue(lastCall'.log, "SLAVE4_CTRL",
                       (conf.sample_rate \div lastCall'.arg[1]) - 1)
         /\ regs'["SLAVE4_CTRL"] = (conf.sample_rate \div lastCall'.arg[1]) - 1
         /\ conf'.compass_sample_rate >= 1]_vars

\* compass rate 3 at a sensor rate of 1000: 332 does not fit, the divider
\* written is 332 - 256 = 76 and the rate stored is 1000 / 77 = 12
C23_Witness ==
    /\ lastCall.op = "mpu9250_set_compass_sample_rate"
    /\ lastCall.arg = <<3>>
    /\ lastCall.ret = 0
    /\ conf.sample_rate = 1000
    /\ lastCall.log[2] = <<"write", "SLAVE4_CTRL", 76>>
    /\ regs["SLAVE4_CTRL"] = 76
    /\ conf.compass_sample_rate = 12

\* the last part of C23: the stored compass rate is at least 1
StoredCompassRatePositive ==
    [][CompassDividerProgrammed(lastCall', conf) => conf'.compass_sample_rate >= 1]_vars

\* the divider is exact whenever sensor_rate / rate is at most 256
DividerExactWhenSmall ==
    [][(/\ CompassDividerProgrammed(lastCall', conf)
        /\ conf.sample_rate \div lastCall'.arg[1] <= 256) =>
           regs'["SLAVE4_CTRL"] = (conf.sample_rate \div lastCall'.arg[1]) - 1]_vars

====
